---- MODULE Spec2Model ----
(***************************************************************************)
(* Model of the store-boundary setter (src/src/App.tsx): the React state   *)
(* of the App component (storeName, center, polygonCoordinates,            *)
(* radiusLimit), the pending geolocation callback, and one action per      *)
(* event handler.                                                          *)
(*                                                                         *)
(* Geometry is modelled on a small integer grid.  Leaflet's                *)
(* LatLng.distanceTo (a great-circle distance in metres) is represented by *)
(* the planar distance between grid points; the comparison                 *)
(* `distance <= radiusLimit` is evaluated exactly, on squares.             *)
(***************************************************************************)
EXTENDS Integers, Sequences, FiniteSets

\* ---------------------------------------------------------------- bounds
\* Coordinates (latitudes and longitudes) range over 0..MaxCoord.
MaxCoord == 2
\* Radius inputs range over -1..MaxRadius.
MaxRadius == 2
\* The containment test is run on polygons with vertices at the even
\* coordinates 0, 2, .., 2 * ShapeMax and centers at 0..ShapeMax + 1.
ShapeMax == 1

\* ------------------------------------------------------ program constants
\* App.tsx:90 and :127, the five-point polygon.
MaxPoints == 5
\* App.tsx:36, defaultCoordinates, as a grid point.
DefaultLat == 1
DefaultLng == 1
\* App.tsx:46, useState<number>(5000), in grid units.
DefaultRadius == 2

VARIABLES storeName, center, polygonCoordinates, radiusLimit, geoPending,
          sinceEdit, last

vars == <<storeName, center, polygonCoordinates, radiusLimit, geoPending,
          sinceEdit, last>>

\* ------------------------------------------------------------ input sets
Coord == 0..MaxCoord
LatLngs == [lat : Coord, lng : Coord]
\* The map positions the operator clicks: three points of the grid, the
\* corners of a triangle with grid points inside it, on it and outside it.
ClickPoints == {[lat |-> 0, lng |-> 0], [lat |-> MaxCoord, lng |-> 1],
                [lat |-> 1, lng |-> MaxCoord]}
\* The value of an <input type="number">: empty, or one number.
CoordTexts == {<<>>} \cup {<<v>> : v \in Coord}
RadiusTexts == {<<>>} \cup {<<v>> : v \in (-1)..MaxRadius}
StoreNames == {"Terrys Cafe London", "Corner Shop"}

defaultCoordinates == [lat |-> DefaultLat, lng |-> DefaultLng]

\* ------------------------------------------------------------- geometry
Min(S) == CHOOSE x \in S : \A y \in S : x <= y
Max(S) == CHOOSE x \in S : \A y \in S : x >= y

\* The square of L.latLng(a).distanceTo(b); a is a LatLngTuple, b a record.
DistanceSq(a, b) == (a[1] - b.lat) * (a[1] - b.lat) + (a[2] - b.lng) * (a[2] - b.lng)

\* distance <= radiusLimit (a distance is never negative).
WithinRadius(p, c, r) == r >= 0 /\ DistanceSq(p, c) <= r * r

\* ------------------------------------------------- MapClickHandler.click
\* Variants of the click handler, each one slip away from App.tsx:90-106.
\* The cap test lets a sixth point in.
ClickResult_CapOffByOne(vs, c, r, p) ==
    IF Len(vs) <= MaxPoints /\ WithinRadius(p, c, r)
    THEN [outcome |-> "Accepted", polygon |-> Append(vs, p)]
    ELSE IF Len(vs) > MaxPoints
    THEN [outcome |-> "RejectedTooMany", polygon |-> vs]
    ELSE [outcome |-> "RejectedOutOfRadius", polygon |-> vs]

\* The radius test is strict: distance < radiusLimit.
ClickResult_StrictRadius(vs, c, r, p) ==
    IF Len(vs) < MaxPoints /\ r >= 0 /\ DistanceSq(p, c) < r * r
    THEN [outcome |-> "Accepted", polygon |-> Append(vs, p)]
    ELSE IF Len(vs) >= MaxPoints
    THEN [outcome |-> "RejectedTooMany", polygon |-> vs]
    ELSE [outcome |-> "RejectedOutOfRadius", polygon |-> vs]

\* The radius is tested before the cap.
ClickResult_RadiusFirst(vs, c, r, p) ==
    IF Len(vs) < MaxPoints /\ WithinRadius(p, c, r)
    THEN [outcome |-> "Accepted", polygon |-> Append(vs, p)]
    ELSE IF ~WithinRadius(p, c, r)
    THEN [outcome |-> "RejectedOutOfRadius", polygon |-> vs]
    ELSE [outcome |-> "RejectedTooMany", polygon |-> vs]

\* The new vertex is stored as [lng, lat].
ClickResult_SwapsLatLng(vs, c, r, p) ==
    IF Len(vs) < MaxPoints /\ WithinRadius(p, c, r)
    THEN [outcome |-> "Accepted", polygon |-> Append(vs, <<p[2], p[1]>>)]
    ELSE IF Len(vs) >= MaxPoints
    THEN [outcome |-> "RejectedTooMany", polygon |-> vs]
    ELSE [outcome |-> "RejectedOutOfRadius", polygon |-> vs]

\* The new vertex is put in front: [point, ...polygonCoordinates].
ClickResult_Prepends(vs, c, r, p) ==
    IF Len(vs) < MaxPoints /\ WithinRadius(p, c, r)
    THEN [outcome |-> "Accepted", polygon |-> <<p>> \o vs]
    ELSE IF Len(vs) >= MaxPoints
    THEN [outcome |-> "RejectedTooMany", polygon |-> vs]
    ELSE [outcome |-> "RejectedOutOfRadius", polygon |-> vs]

\* App.tsx:90-106: the branch of the click handler that runs, and the
\* polygon it leaves; only the first branch sets the polygon, the other two
\* raise a toast.
ClickResult(vs, c, r, p) ==
    IF Len(vs) < MaxPoints /\ WithinRadius(p, c, r)
    THEN [outcome |-> "Accepted", polygon |-> Append(vs, p)]
    ELSE IF Len(vs) >= MaxPoints
    THEN [outcome |-> "RejectedTooMany", polygon |-> vs]
    ELSE [outcome |-> "RejectedOutOfRadius", polygon |-> vs]

\* ---------------------------------------------------- handleUndoLastPoint
\* A variant of the undo: slice(1), which drops the oldest vertex.
UndoVertices_DropsFirst(vs) == SubSeq(vs, 2, Len(vs))

\* App.tsx:165: polygonCoordinates.slice(0, -1).
UndoVertices(vs) == SubSeq(vs, 1, Len(vs) - 1)

\* --------------------------------------------------- handleClearAllPoints
\* A variant of the clear: slice(0, 1), which keeps the first vertex.
ClearVertices_KeepsFirst(vs) == SubSeq(vs, 1, 1)

\* App.tsx:170: setPolygonCoordinates([]).
ClearVertices(vs) == <<>>

\* -------------------------------------------------- isCenterInsidePolygon
\* App.tsx:118,121: L.polygon(vs).getBounds(), the south-west and north-east
\* corners of the smallest rectangle holding every vertex.
GetBounds(vs) ==
    [south |-> Min({vs[i][1] : i \in 1..Len(vs)}),
     north |-> Max({vs[i][1] : i \in 1..Len(vs)}),
     west  |-> Min({vs[i][2] : i \in 1..Len(vs)}),
     east  |-> Max({vs[i][2] : i \in 1..Len(vs)})]

\* A variant of the bounds test: the borders are left out.
BoundsContains_Strict(b, c) ==
    /\ b.south < c.lat /\ c.lat < b.north
    /\ b.west < c.lng /\ c.lng < b.east

\* App.tsx:121: LatLngBounds.contains(centerPoint), borders included.
BoundsContains(b, c) ==
    /\ b.south <= c.lat /\ c.lat <= b.north
    /\ b.west <= c.lng /\ c.lng <= b.east

\* A variant of the containment test: only the empty polygon is turned away.
isCenterInsidePolygon_GuardsEmptyOnly(vs, c) ==
    IF Len(vs) < 1 THEN FALSE ELSE BoundsContains(GetBounds(vs), c)

\* App.tsx:113-123.
isCenterInsidePolygon(vs, c) ==
    IF Len(vs) < 3 THEN FALSE ELSE BoundsContains(GetBounds(vs), c)

\* ------------------------------------------------------ handleSavePolygon
\* A variant of the save: the containment test comes before the count test.
SaveOutcome_ContainmentFirst(vs, c) ==
    IF ~isCenterInsidePolygon(vs, c) THEN "CenterNotContained"
    ELSE IF Len(vs) # MaxPoints THEN "IncompleteBoundary"
    ELSE "Ok"

\* App.tsx:127-154: the toast the save handler ends with.
SaveOutcome(vs, c) ==
    IF Len(vs) # MaxPoints THEN "IncompleteBoundary"
    ELSE IF ~isCenterInsidePolygon(vs, c) THEN "CenterNotContained"
    ELSE "Ok"

\* App.tsx:145-148: the boundary built on success.
Boundary(vs) == [i \in 1..Len(vs) |-> [latitude |-> vs[i][1], longitude |-> vs[i][2]]]

\* App.tsx:145-154: all that a successful save builds from the polygon vs,
\* the center c and the store name n, by name: the boundary, which is logged;
\* neither c nor n is read.
Saved(vs, c, n) == [boundary |-> Boundary(vs)]

\* ------------------------------------------------------------ form inputs
\* App.tsx:177: e.target.value ? parseFloat(e.target.value) : 0.
ParseCoord(t) == IF t = <<>> THEN 0 ELSE t[1]

\* App.tsx:246: Number(e.target.value); Number("") is 0.
ParseRadius(t) == IF t = <<>> THEN 0 ELSE t[1]

\* App.tsx:175-178: { ...prev, [key]: value }.
WithKey(c, key, v) == IF key = "lat" THEN [c EXCEPT !.lat = v] ELSE [c EXCEPT !.lng = v]

\* ------------------------------------------------------------------ state
\* sinceEdit counts the trailing vertices accepted since the center or the
\* radius last changed.  last records what the last handler did: its name,
\* its argument (the clicked point, or the point an undo removed), its
\* outcome, the polygon before it, whether an undo removed a point accepted
\* under the present center and radius (wasFresh), whether a click re-adds
\* the point such an undo removed (reAdd), and the data a successful save
\* built (saved; <<>> when none was built).
Done(op, arg, outcome, before, wasFresh, reAdd, saved) ==
    [op |-> op, arg |-> arg, outcome |-> outcome, before |-> before,
     wasFresh |-> wasFresh, reAdd |-> reAdd, saved |-> saved]

\* App.tsx:41-46: the state after the first render; the geolocation request
\* of App.tsx:54 is outstanding.
Init ==
    /\ storeName = "Terrys Cafe London"
    /\ center = defaultCoordinates
    /\ polygonCoordinates = <<>>
    /\ radiusLimit = DefaultRadius
    /\ geoPending = TRUE
    /\ sinceEdit = 0
    /\ last = Done("init", <<>>, "None", <<>>, FALSE, FALSE, <<>>)

\* App.tsx:87-107: a click on the map at p.
Click(p) ==
    LET pt == <<p.lat, p.lng>>
        res == ClickResult(polygonCoordinates, center, radiusLimit, pt)
    IN  /\ polygonCoordinates' = res.polygon
        /\ sinceEdit' = IF res.outcome = "Accepted" THEN sinceEdit + 1 ELSE sinceEdit
        /\ last' = Done("add", pt, res.outcome, polygonCoordinates, FALSE,
                        last.op = "undo" /\ last.wasFresh /\ last.arg = pt, <<>>)
        /\ UNCHANGED <<storeName, center, radiusLimit, geoPending>>

\* App.tsx:164-166: the handler of the Undo Last Point button.  The button
\* is disabled while the polygon is empty (App.tsx:220); the handler itself
\* has no guard, and the model lets it run on the empty polygon too.
handleUndoLastPoint ==
    /\ polygonCoordinates' = UndoVertices(polygonCoordinates)
    /\ sinceEdit' = IF sinceEdit > 0 THEN sinceEdit - 1 ELSE 0
    /\ last' = Done("undo",
                    IF polygonCoordinates = <<>> THEN <<>>
                    ELSE polygonCoordinates[Len(polygonCoordinates)],
                    IF polygonCoordinates = <<>> THEN "Empty" ELSE "Removed",
                    polygonCoordinates, sinceEdit > 0, FALSE, <<>>)
    /\ UNCHANGED <<storeName, center, radiusLimit, geoPending>>

\* App.tsx:169-171: the handler of the Clear All Points button (disabled
\* while the polygon is empty, App.tsx:226; the handler has no guard).
handleClearAllPoints ==
    /\ polygonCoordinates' = ClearVertices(polygonCoordinates)
    /\ sinceEdit' = 0
    /\ last' = Done("clear", <<>>, "None", polygonCoordinates, FALSE, FALSE, <<>>)
    /\ UNCHANGED <<storeName, center, radiusLimit, geoPending>>

\* App.tsx:173-179: an edit of the latitude or longitude field.
handleCenterChange(key, t) ==
    /\ center' = WithKey(center, key, ParseCoord(t))
    /\ sinceEdit' = 0
    /\ last' = Done("setCenter", <<>>, "None", polygonCoordinates, FALSE, FALSE, <<>>)
    /\ UNCHANGED <<storeName, polygonCoordinates, radiusLimit, geoPending>>

\* A variant of the radius edit: the vertices outside the new radius are
\* dropped.
setRadiusLimit_Revalidates(t) ==
    LET Keeps(v) == WithinRadius(v, center, ParseRadius(t))
    IN  /\ radiusLimit' = ParseRadius(t)
        /\ polygonCoordinates' = SelectSeq(polygonCoordinates, Keeps)
        /\ sinceEdit' = 0
        /\ last' = Done("setRadius", <<>>, "None", polygonCoordinates, FALSE, FALSE, <<>>)
        /\ UNCHANGED <<storeName, center, geoPending>>

\* App.tsx:246: an edit of the radius field.
setRadiusLimit(t) ==
    /\ radiusLimit' = ParseRadius(t)
    /\ sinceEdit' = 0
    /\ last' = Done("setRadius", <<>>, "None", polygonCoordinates, FALSE, FALSE, <<>>)
    /\ UNCHANGED <<storeName, center, polygonCoordinates, geoPending>>

\* App.tsx:237: an edit of the store name field.
setStoreName(n) ==
    /\ storeName' = n
    /\ last' = Done("setStoreName", <<>>, "None", polygonCoordinates, FALSE, FALSE, <<>>)
    /\ UNCHANGED <<center, polygonCoordinates, radiusLimit, geoPending, sinceEdit>>

\* A variant of the geolocation callback: the position is watched, so the
\* callback stays outstanding after a delivery.
GeoPosition_Watches(coords) ==
    /\ geoPending
    /\ geoPending' = TRUE
    /\ center' = coords
    /\ sinceEdit' = 0
    /\ last' = Done("geolocation", <<>>, "None", polygonCoordinates, FALSE, FALSE, <<>>)
    /\ UNCHANGED <<storeName, polygonCoordinates, radiusLimit>>

\* App.tsx:54-67: the position callback of getCurrentPosition.
GeoPosition(coords) ==
    /\ geoPending
    /\ geoPending' = FALSE
    /\ center' = coords
    /\ sinceEdit' = 0
    /\ last' = Done("geolocation", <<>>, "None", polygonCoordinates, FALSE, FALSE, <<>>)
    /\ UNCHANGED <<storeName, polygonCoordinates, radiusLimit>>

\* A variant of the save: a successful save empties the polygon.
handleSavePolygon_Resets ==
    LET outcome == SaveOutcome(polygonCoordinates, center)
    IN  /\ last' = Done("save", <<>>, outcome, polygonCoordinates, FALSE, FALSE,
                        IF outcome = "Ok"
                        THEN Saved(polygonCoordinates, center, storeName) ELSE <<>>)
        /\ polygonCoordinates' = IF outcome = "Ok" THEN <<>> ELSE polygonCoordinates
        /\ UNCHANGED <<storeName, center, radiusLimit, geoPending, sinceEdit>>

\* App.tsx:126-162: the Save Store with Boundary button.
handleSavePolygon ==
    LET outcome == SaveOutcome(polygonCoordinates, center)
    IN  /\ last' = Done("save", <<>>, outcome, polygonCoordinates, FALSE, FALSE,
                        IF outcome = "Ok"
                        THEN Saved(polygonCoordinates, center, storeName) ELSE <<>>)
        /\ UNCHANGED <<storeName, center, polygonCoordinates, radiusLimit,
                       geoPending, sinceEdit>>

Next ==
    \/ \E p \in ClickPoints : Click(p)
    \/ handleUndoLastPoint
    \/ handleClearAllPoints
    \/ \E key \in {"lat", "lng"}, t \in CoordTexts : handleCenterChange(key, t)
    \/ \E t \in RadiusTexts : setRadiusLimit(t)
    \/ \E n \in StoreNames : setStoreName(n)
    \/ \E coords \in LatLngs : GeoPosition(coords)
    \/ handleSavePolygon

\* ------------------------------------- the containment test on its own
\* Polygons of 0 to 5 vertices and centers for isCenterInsidePolygon: the
\* vertices lie at even coordinates, so that centers fall inside polygons,
\* on their edges and outside them.
ShapeVertices == {<<2 * a, 2 * b>> : a \in 0..ShapeMax, b \in 0..ShapeMax}
ShapeCenters == [lat : 0..(ShapeMax + 1), lng : 0..(ShapeMax + 1)]

\* A session with any such polygon and center (the polygon clicked, the
\* center typed); name and radius are the initial ones.
InitContain ==
    /\ storeName = "Terrys Cafe London"
    /\ center \in ShapeCenters
    /\ polygonCoordinates \in UNION {[1..n -> ShapeVertices] : n \in 0..MaxPoints}
    /\ radiusLimit = DefaultRadius
    /\ geoPending = FALSE
    /\ sinceEdit = 0
    /\ last = Done("init", <<>>, "None", <<>>, FALSE, FALSE, <<>>)

\* App.tsx:113-123: a call of isCenterInsidePolygon and what it returns.
isCenterInsidePolygonCall ==
    /\ last' = Done("isCenterInsidePolygon", <<>>,
                    IF isCenterInsidePolygon(polygonCoordinates, center)
                    THEN "true" ELSE "false",
                    polygonCoordinates, FALSE, FALSE, <<>>)
    /\ UNCHANGED <<storeName, center, polygonCoordinates, radiusLimit,
                   geoPending, sinceEdit>>

NextContain ==
    \/ isCenterInsidePolygonCall
    \/ handleSavePolygon

SpecContain == InitContain /\ [][NextContain]_vars

Spec == Init /\ [][Next]_vars

\* ------------------------------------------------ reference containment
\* Geometric containment of a point in the closed polygon whose ring is vs,
\* the last vertex joined to the first (spec section 4.1): the point lies on
\* an edge, or a ray from it crosses the ring an odd number of times.
EdgeIndexes(vs) == 1..Len(vs)

Cross(a, b, p) == (b[1] - a[1]) * (p[2] - a[2]) - (b[2] - a[2]) * (p[1] - a[1])

OnSegment(p, a, b) ==
    /\ Cross(a, b, p) = 0
    /\ (a[1] <= p[1] /\ p[1] <= b[1]) \/ (b[1] <= p[1] /\ p[1] <= a[1])
    /\ (a[2] <= p[2] /\ p[2] <= b[2]) \/ (b[2] <= p[2] /\ p[2] <= a[2])

RayCrosses(p, a, b) ==
    /\ (a[2] > p[2]) # (b[2] > p[2])
    /\ IF b[2] > a[2]
       THEN (p[1] - a[1]) * (b[2] - a[2]) < (p[2] - a[2]) * (b[1] - a[1])
       ELSE (p[1] - a[1]) * (b[2] - a[2]) > (p[2] - a[2]) * (b[1] - a[1])

PointInPolygon(c, vs) ==
    LET p == <<c.lat, c.lng>>
        next(i) == (i % Len(vs)) + 1
    IN  /\ Len(vs) >= 3
        /\ \/ \E i \in EdgeIndexes(vs) : OnSegment(p, vs[i], vs[next(i)])
           \/ Cardinality({i \in EdgeIndexes(vs) : RayCrosses(p, vs[i], vs[next(i)])}) % 2 = 1

\* ----------------------------------------------------------------- claims
Count == Len(polygonCoordinates)

\* C1: in every reachable state the polygon holds between 0 and 5 vertices.
C1_VertexCountBounded == Count >= 0 /\ Count <= MaxPoints

\* C1 witness: a click arrived at a full polygon and was turned down.
C1_Witness ==
    /\ last.op = "add" /\ last.outcome = "RejectedTooMany"
    /\ Count = MaxPoints

\* C2: a save succeeds exactly when the polygon has 5 vertices and the center
\* lies geometrically inside it; with 5 vertices and the center outside, the
\* save reports CenterNotContained.
C2_SaveIffContained ==
    last.op = "save" =>
        /\ (last.outcome = "Ok") <=> (Count = MaxPoints /\ PointInPolygon(center, polygonCoordinates))
        /\ (Count = MaxPoints /\ ~PointInPolygon(center, polygonCoordinates))
               => last.outcome = "CenterNotContained"

\* C3: with fewer than 5 vertices a click is accepted exactly when the point
\* is no farther from the current center than the current radius (a point at
\* exactly the radius is accepted); otherwise it is rejected as out of radius
\* and the polygon is unchanged.
C3_RadiusGate ==
    [][(last'.op = "add" /\ Count < MaxPoints) =>
          /\ (last'.outcome = "Accepted") <=>
                 (radiusLimit >= 0 /\
                  DistanceSq(last'.arg, center) <= radiusLimit * radiusLimit)
          /\ last'.outcome # "Accepted" =>
                 /\ last'.outcome = "RejectedOutOfRadius"
                 /\ polygonCoordinates' = polygonCoordinates]_vars

\* C3 witness: after the center and the radius were edited, a click at
\* exactly the radius from the center was accepted.
C3_Witness ==
    /\ last.op = "add" /\ last.outcome = "Accepted"
    /\ center # defaultCoordinates /\ radiusLimit # DefaultRadius
    /\ radiusLimit > 0
    /\ DistanceSq(last.arg, center) = radiusLimit * radiusLimit

\* C4: with 5 vertices every click is rejected with RejectedTooMany, also a
\* click outside the radius, and polygon, center and radius are unchanged.
C4_TooManyFirst ==
    [][(last'.op = "add" /\ Count >= MaxPoints) =>
          /\ last'.outcome = "RejectedTooMany"
          /\ polygonCoordinates' = polygonCoordinates
          /\ center' = center
          /\ radiusLimit' = radiusLimit]_vars

\* C4 witness: a click outside the radius was rejected with RejectedTooMany.
C4_Witness ==
    /\ last.op = "add" /\ last.outcome = "RejectedTooMany"
    /\ Len(last.before) = MaxPoints
    /\ ~WithinRadius(last.arg, center, radiusLimit)

\* C5: a save with a vertex count other than 5 reports IncompleteBoundary
\* wherever the center is, and a save with 5 vertices around the center
\* succeeds.
C5_IncompleteFirst ==
    [][last'.op = "save" =>
          /\ Count # MaxPoints => last'.outcome = "IncompleteBoundary"
          /\ (Count = MaxPoints /\ PointInPolygon(center, polygonCoordinates))
                 => last'.outcome = "Ok"]_vars

\* C5 witness: a save of 4 vertices whose bounds do not hold the center was
\* reported as incomplete.
C5_Witness ==
    /\ last.op = "save" /\ last.outcome = "IncompleteBoundary"
    /\ Count = MaxPoints - 1
    /\ ~isCenterInsidePolygon(polygonCoordinates, center)

\* C6: an accepted click appends its point to the polygon, every earlier
\* vertex kept in place; no click shortens the polygon or lengthens it by
\* more than one.
C6_AppendOnly ==
    [][last'.op = "add" =>
          /\ Len(polygonCoordinates') - Count \in {0, 1}
          /\ \A i \in 1..Count : polygonCoordinates'[i] = polygonCoordinates[i]
          /\ IF last'.outcome = "Accepted"
             THEN /\ Len(polygonCoordinates') = Count + 1
                  /\ polygonCoordinates'[Count + 1] = last'.arg
             ELSE polygonCoordinates' = polygonCoordinates]_vars

\* C6 witness: a point was accepted behind two different earlier vertices.
C6_Witness ==
    /\ last.op = "add" /\ last.outcome = "Accepted"
    /\ Count >= 3
    /\ polygonCoordinates[Count] = last.arg
    /\ polygonCoordinates[1] # polygonCoordinates[2]
    /\ polygonCoordinates[2] # last.arg

\* C7: an undo removes exactly the last vertex of a non-empty polygon and
\* keeps the remaining prefix, the center, the radius and the store name; on
\* the empty polygon it changes nothing.
C7_UndoPopsLast ==
    [][last'.op = "undo" =>
          /\ IF Count > 0
             THEN /\ Len(polygonCoordinates') = Count - 1
                  /\ \A i \in 1..(Count - 1) :
                         polygonCoordinates'[i] = polygonCoordinates[i]
             ELSE polygonCoordinates' = polygonCoordinates
          /\ center' = center
          /\ radiusLimit' = radiusLimit
          /\ storeName' = storeName]_vars

\* C7 witness: an undo removed the last of several differing vertices.
C7_Witness ==
    /\ last.op = "undo" /\ last.outcome = "Removed"
    /\ Count >= 2
    /\ polygonCoordinates[1] # polygonCoordinates[Count]
    /\ polygonCoordinates[Count] # last.arg

\* C8: an undo followed at once by a click on the removed point restores the
\* polygon of before the undo, when neither the center nor the radius was
\* set since that point was accepted.
C8_UndoThenReAdd ==
    [][(/\ last.op = "undo" /\ last.outcome = "Removed" /\ last.wasFresh
        /\ last'.op = "add" /\ last'.arg = last.arg)
          => polygonCoordinates' = last.before]_vars

\* C8 witness: the point an undo removed was clicked again and accepted.
C8_Witness ==
    /\ last.op = "add" /\ last.reAdd /\ last.outcome = "Accepted"
    /\ Count >= 2

\* C9: an edit of the center changes only the center and an edit of the
\* radius only the radius; the polygon stays as it was, also when a vertex
\* is now outside the radius.
C9_EditsKeepPolygon ==
    [][/\ last'.op = "setCenter" =>
              /\ polygonCoordinates' = polygonCoordinates
              /\ radiusLimit' = radiusLimit
              /\ storeName' = storeName
       /\ last'.op = "setRadius" =>
              /\ polygonCoordinates' = polygonCoordinates
              /\ center' = center
              /\ storeName' = storeName]_vars

\* C9 witness: after an edit of the radius a vertex accepted earlier is
\* farther from the center than the radius.
C9_Witness ==
    /\ last.op = "setRadius"
    /\ radiusLimit > 0
    /\ \E i \in 1..Count : ~WithinRadius(polygonCoordinates[i], center, radiusLimit)

\* C10: a clear leaves the polygon empty and the center, the radius and the
\* store name as they were.
C10_ClearEmpties ==
    [][last'.op = "clear" =>
          /\ polygonCoordinates' = <<>>
          /\ center' = center
          /\ radiusLimit' = radiusLimit
          /\ storeName' = storeName]_vars

\* C10 witness: a full polygon was cleared after the center, the radius and
\* the name had been edited.
C10_Witness ==
    /\ last.op = "clear" /\ Len(last.before) = MaxPoints
    /\ Count = 0
    /\ center # defaultCoordinates /\ radiusLimit # DefaultRadius
    /\ storeName # "Terrys Cafe London"

\* C11: a save, whatever its outcome, leaves the center, the radius, the
\* store name and the polygon as they were, and the handlers keep running
\* after it.
C11_SaveKeepsSession ==
    [][/\ last'.op = "save" =>
              /\ center' = center
              /\ radiusLimit' = radiusLimit
              /\ storeName' = storeName
              /\ polygonCoordinates' = polygonCoordinates
       /\ (last.op = "save" /\ last'.op = "undo") =>
              polygonCoordinates' = UndoVertices(last.before)
       /\ (last.op = "save" /\ last'.op = "clear") => polygonCoordinates' = <<>>
       /\ (last.op = "save" /\ last'.op = "add" /\ Len(last.before) < MaxPoints
              /\ WithinRadius(last'.arg, center, radiusLimit)) =>
              polygonCoordinates' = Append(last.before, last'.arg)]_vars

\* C11 witness: a save succeeded and the full polygon, the edited center and
\* the edited name are still in place.
C11_Witness ==
    /\ last.op = "save" /\ last.outcome = "Ok"
    /\ Count = MaxPoints /\ polygonCoordinates = last.before
    /\ center # defaultCoordinates
    /\ storeName # "Terrys Cafe London"

\* C12: a successful save builds a snapshot holding the current center, the
\* store name and exactly the 5 current vertices in insertion order.
C12_SnapshotComplete ==
    (last.op = "save" /\ last.outcome = "Ok") =>
        /\ "boundary" \in DOMAIN last.saved
        /\ Len(last.saved.boundary) = MaxPoints
        /\ \A i \in 1..MaxPoints :
               /\ last.saved.boundary[i].latitude = polygonCoordinates[i][1]
               /\ last.saved.boundary[i].longitude = polygonCoordinates[i][2]
        /\ "center" \in DOMAIN last.saved
        /\ last.saved.center = center
        /\ "storeName" \in DOMAIN last.saved
        /\ last.saved.storeName = storeName

\* C13: the radius is strictly positive in every reachable state, whatever
\* is typed into the radius field.
C13_RadiusPositive == radiusLimit > 0

\* The polygons that undo, clear and click calls lead to from the polygon vs
\* under the center c and the radius r: a prefix of vs followed by points
\* within the radius, the points taken from the whole grid.
GridPoints == {<<p.lat, p.lng>> : p \in LatLngs}

CanCompleteFrom(vs, c, r) ==
    LET near == {p \in GridPoints : WithinRadius(p, c, r)}
    IN  \E k \in 0..Len(vs) :
            \E ext \in [1..(MaxPoints - k) -> near] :
                SaveOutcome(SubSeq(vs, 1, k) \o ext, c) = "Ok"

\* After a click was rejected with RejectedTooMany, an undo followed by a
\* click within the radius is accepted.
RetryAfterTooMany ==
    (last.op = "add" /\ last.outcome = "RejectedTooMany") =>
        \A p \in GridPoints :
            WithinRadius(p, center, radiusLimit) =>
                ClickResult(UndoVertices(polygonCoordinates), center, radiusLimit, p).outcome
                    = "Accepted"

\* C14: every rejection is recoverable: after RejectedTooMany an undo and a
\* click within the radius is accepted, and from every reachable state undo,
\* clear and click calls lead to a polygon of 5 vertices that a save accepts.
C14_Recoverable ==
    /\ RetryAfterTooMany
    /\ CanCompleteFrom(polygonCoordinates, center, radiusLimit)

\* C15: the geolocation result arrives at most once, at any point of the
\* session; it replaces the center and leaves the polygon, the radius and the
\* store name as they were, and every later click is gated against the
\* center then current.
C15_GeolocationActsAsSetCenter ==
    [][/\ last'.op = "geolocation" =>
              /\ geoPending /\ ~geoPending'
              /\ polygonCoordinates' = polygonCoordinates
              /\ radiusLimit' = radiusLimit
              /\ storeName' = storeName
       /\ ~geoPending => (~geoPending' /\ last'.op # "geolocation")
       /\ (~geoPending /\ last'.op = "add" /\ Count < MaxPoints) =>
              ((last'.outcome = "Accepted") <=>
                   (radiusLimit >= 0 /\
                    DistanceSq(last'.arg, center) <= radiusLimit * radiusLimit))]_vars

\* C15 witness: the position arrived after points had been accepted, and a
\* vertex that is outside the radius of the new center is still there.
C15_Witness ==
    /\ last.op = "geolocation" /\ ~geoPending
    /\ Count >= 2
    /\ polygonCoordinates = last.before
    /\ radiusLimit > 0
    /\ \E i \in 1..Count : ~WithinRadius(polygonCoordinates[i], center, radiusLimit)

\* C16: the containment test of the save is never stricter than geometric
\* containment: for a polygon of 5 vertices with the center inside it the
\* test returns true and the save succeeds; where the test and geometric
\* containment differ, the test has accepted a center that is outside the
\* polygon and inside its bounding rectangle.
C16_NeverStricter ==
    /\ (/\ last.op = "isCenterInsidePolygon" /\ Count = MaxPoints
        /\ PointInPolygon(center, polygonCoordinates)) => last.outcome = "true"
    /\ (/\ last.op = "save" /\ Count = MaxPoints
        /\ PointInPolygon(center, polygonCoordinates)) => last.outcome = "Ok"
    /\ (/\ last.op = "isCenterInsidePolygon" /\ Count = MaxPoints
        /\ (last.outcome = "true") # PointInPolygon(center, polygonCoordinates)) =>
            /\ last.outcome = "true"
            /\ BoundsContains(GetBounds(polygonCoordinates), center)

\* C16 witness: a save succeeded with the center strictly inside a polygon
\* of 5 vertices, on none of its edges.
C16_Witness ==
    /\ last.op = "save" /\ last.outcome = "Ok" /\ Count = MaxPoints
    /\ PointInPolygon(center, polygonCoordinates)
    /\ \A i \in 1..Count :
           ~OnSegment(<<center.lat, center.lng>>, polygonCoordinates[i],
                      polygonCoordinates[(i % Count) + 1])

\* C17: for a polygon of fewer than 3 vertices the containment test returns
\* false, wherever the center is.
C17_DegenerateIsFalse ==
    (last.op = "isCenterInsidePolygon" /\ Count < 3) => last.outcome = "false"

\* C17 witness: the test returned false for 2 vertices whose bounding
\* rectangle holds the center.
C17_Witness ==
    /\ last.op = "isCenterInsidePolygon" /\ last.outcome = "false"
    /\ Count = 2
    /\ BoundsContains(GetBounds(polygonCoordinates), center)

====
